---- MODULE Spec2Model ----
(***************************************************************************)
(* The MVVM wiring of MvvmExample.cpp: EqFilter (model), EqFilterViewModel *)
(* and EqFilterComponent (slider), MagnitudeResponsePlotViewModel and      *)
(* PlotComponent (plot), connected as wiring() connects them, and torn     *)
(* down in the order C++ destroys them at the end of wiring().             *)
(*                                                                         *)
(* Everything runs on the message thread: a handler and all the            *)
(* notifications it causes are one atomic step.  `trace` is the ordered    *)
(* log of what the last step did (calls, stores, publishes), so that the   *)
(* order and the number of notifications can be stated.                    *)
(*                                                                         *)
(* Frequencies are integers (Hz).  A magnitude response and a path are     *)
(* sequences of integers, a rectangle is <<x, y, w, h>>.                   *)
(*                                                                         *)
(* The bodies of calculateMagnitudeResponse and                            *)
(* calculateMagnitudeResponsePlot are elided in the source ("// magic").   *)
(* Both are const member functions with no parameters: all they can        *)
(* depend on is the members they read.  They are modelled as injective     *)
(* functions of those members, so that a result computed from stale        *)
(* members differs from one computed from the current ones.                *)
(***************************************************************************)
EXTENDS Integers, Sequences, FiniteSets, TLC

VARIABLES
  cutoffFrequency,          \* EqFilter::cutoffFrequency_
  filter_magnitudeResponse, \* EqFilter::magnitudeResponse_ (observable value)
  frequencySliderValue,     \* EqFilterViewModel::frequencySliderValue_ (observable value)
  frequencySlider,          \* EqFilterComponent::frequencySlider_ (widget value)
  vm_magnitudeResponse,     \* MagnitudeResponsePlotViewModel::magnitudeResponse_
  plotBounds,               \* MagnitudeResponsePlotViewModel::plotBounds_
  plot,                     \* MagnitudeResponsePlotViewModel::plot_ (observable value)
  repaintPending,           \* PlotComponent: repaint() requested, paint() not yet run
  painted,                  \* the path the last paint() stroked
  connected,                \* the ScopedConnections still held
  alive,                    \* the objects whose lifetime has not ended
  pc,                       \* position in wiring(): running, or the next destructor step
  trace                     \* what the last step did, in order

vars == <<cutoffFrequency, filter_magnitudeResponse, frequencySliderValue,
          frequencySlider, vm_magnitudeResponse, plotBounds, plot,
          repaintPending, painted, connected, alive, pc, trace>>

----------------------------------------------------------------------------
(* Bounds of the model *)

NumFreqs == 3
NumRects == 2

(* Program constants *)

SliderMin == 30
SliderMax == 10000
InitialSliderValue == 100
InitialCutoffFrequency == 100

\* Frequencies a caller or the user passes; InitialCutoffFrequency is one of them.
Freqs == {SliderMin + 70 * i : i \in 0 .. NumFreqs - 1}

\* Values the frequencySliderValue observable may be set to, some out of range.
ObsValues == Freqs \cup {SliderMin - 10, SliderMax + 10}

\* juce::Rectangle<int>: default-constructed, and the bounds a resize reports.
DefaultRectangle == <<0, 0, 0, 0>>
Rects == {<<0, 0, 100 * i, 100 * i>> : i \in 1 .. NumRects}

\* Default-constructed dsp::MagnitudeResponse and juce::Path.
EmptyResponse == <<>>
EmptyPath == <<>>

----------------------------------------------------------------------------
(* The objects and the subscriptions *)

Filter == "filter"
EqViewModel == "eqFilterComponent.viewModel_"
Slider == "eqFilterComponent.frequencySlider_"
EqComponent == "eqFilterComponent"
PlotViewModel == "plotComponent.plotViewModel_"
PlotComp == "plotComponent"

Objects == {Filter, EqViewModel, Slider, EqComponent, PlotViewModel, PlotComp}

EqConn == "eqFilterComponent.connections_"
VmConn == "plotViewModel.connections_"
PlotConn == "plotComponent.connections_"

Connections == {EqConn, VmConn, PlotConn}

\* The object owning the observable a connection subscribes to.
ConnSource(c) ==
  CASE c = EqConn -> EqViewModel
    [] c = VmConn -> Filter
    [] c = PlotConn -> PlotViewModel

\* The objects the callback of a connection touches through its captured this.
ConnObserver(c) ==
  CASE c = EqConn -> {Slider}
    [] c = VmConn -> {PlotViewModel}
    [] c = PlotConn -> {PlotComp}

\* The object whose connections_ member holds the connection.
ConnHolder(c) ==
  CASE c = EqConn -> EqComponent
    [] c = VmConn -> PlotViewModel
    [] c = PlotConn -> PlotComp

----------------------------------------------------------------------------
(* The program state as a record, so that nested calls compose *)

State ==
  [cutoffFrequency |-> cutoffFrequency,
   filter_magnitudeResponse |-> filter_magnitudeResponse,
   frequencySliderValue |-> frequencySliderValue,
   frequencySlider |-> frequencySlider,
   vm_magnitudeResponse |-> vm_magnitudeResponse,
   plotBounds |-> plotBounds,
   plot |-> plot,
   repaintPending |-> repaintPending,
   painted |-> painted,
   connected |-> connected,
   alive |-> alive,
   pc |-> pc,
   trace |-> trace]

Commit(s) ==
  /\ cutoffFrequency' = s.cutoffFrequency
  /\ filter_magnitudeResponse' = s.filter_magnitudeResponse
  /\ frequencySliderValue' = s.frequencySliderValue
  /\ frequencySlider' = s.frequencySlider
  /\ vm_magnitudeResponse' = s.vm_magnitudeResponse
  /\ plotBounds' = s.plotBounds
  /\ plot' = s.plot
  /\ repaintPending' = s.repaintPending
  /\ painted' = s.painted
  /\ connected' = s.connected
  /\ alive' = s.alive
  /\ pc' = s.pc
  /\ trace' = s.trace

\* A step starts a fresh log.
Begin(name, arg) == [State EXCEPT !.trace = <<<<name, arg>>>>]

Log(s, name, arg) == [s EXCEPT !.trace = Append(@, <<name, arg>>)]

----------------------------------------------------------------------------
(* The elided computations *)

calculateMagnitudeResponse(s) == <<s.cutoffFrequency>>

calculateMagnitudeResponsePlot(s) == s.vm_magnitudeResponse \o s.plotBounds

----------------------------------------------------------------------------
(* PlotComponent and MagnitudeResponsePlotViewModel *)

\* A PlotComponent that forgets to ask for a repaint.
PlotComponent_onPlotChanged_NoRepaint(s, path) == s

\* The observer of plot(): [this](const juce::Path&) { repaint(); }
PlotComponent_onPlotChanged(s, path) ==
  Log([s EXCEPT !.repaintPending = TRUE], "repaint", <<>>)

\* plot_.setValueForced(p): store, then call every connected observer.
plot_setValueForced(s, p) ==
  LET s1 == Log([s EXCEPT !.plot = p], "plot.setValueForced", p)
  IN  IF PlotConn \in s1.connected THEN PlotComponent_onPlotChanged(s1, p) ELSE s1

updatePlot(s) == plot_setValueForced(s, calculateMagnitudeResponsePlot(s))

\* An observer that recomputes the plot twice per emission.
PlotViewModel_onMagnitudeResponse_Twice(s, newResponse) ==
  updatePlot(updatePlot(
    Log([s EXCEPT !.vm_magnitudeResponse = newResponse],
        "plotViewModel.magnitudeResponse_", newResponse)))

\* The observer of the model's magnitudeResponse: cache, then updatePlot().
PlotViewModel_onMagnitudeResponse(s, newResponse) ==
  updatePlot(
    Log([s EXCEPT !.vm_magnitudeResponse = newResponse],
        "plotViewModel.magnitudeResponse_", newResponse))

\* A view-model that recomputes before it stores the new bounds.
PlotViewModel_onPlotBoundsChanged_Stale(s, newBounds) ==
  LET s1 == updatePlot(s)
  IN  Log([s1 EXCEPT !.plotBounds = newBounds], "plotBounds_", newBounds)

PlotViewModel_onPlotBoundsChanged(s, newBounds) ==
  updatePlot(Log([s EXCEPT !.plotBounds = newBounds], "plotBounds_", newBounds))

PlotComponent_resized(s, localBounds) ==
  PlotViewModel_onPlotBoundsChanged(s, localBounds)

----------------------------------------------------------------------------
(* EqFilter *)

\* magnitudeResponse_.setValueForced(r): store, then call every connected
\* observer, whether or not r differs from the stored value.
magnitudeResponse_setValueForced(s, r) ==
  LET s1 == Log([s EXCEPT !.filter_magnitudeResponse = r],
                "magnitudeResponse.setValueForced", r)
  IN  IF VmConn \in s1.connected THEN PlotViewModel_onMagnitudeResponse(s1, r) ELSE s1

\* A model that computes the response before it stores the new cutoff.
EqFilter_onCutoffFrequencyChanged_Stale(s, newCutoffFrequency) ==
  LET r  == calculateMagnitudeResponse(s)
      s1 == Log([s EXCEPT !.cutoffFrequency = newCutoffFrequency],
                "cutoffFrequency_", <<s.cutoffFrequency, newCutoffFrequency>>)
  IN  magnitudeResponse_setValueForced(s1, r)

EqFilter_onCutoffFrequencyChanged(s, newCutoffFrequency) ==
  LET s1 == Log([s EXCEPT !.cutoffFrequency = newCutoffFrequency],
                "cutoffFrequency_", <<s.cutoffFrequency, newCutoffFrequency>>)
  IN  magnitudeResponse_setValueForced(s1, calculateMagnitudeResponse(s1))

----------------------------------------------------------------------------
(* EqFilterViewModel and EqFilterComponent *)

\* The use case wiring() injects: [&](double hz) { filter.onCutoffFrequencyChanged(hz); }
cutoffFrequencyChanged_(s, newCutoffFrequencyHz) ==
  EqFilter_onCutoffFrequencyChanged(
    Log(s, "cutoffFrequencyChanged_", <<newCutoffFrequencyHz>>),
    newCutoffFrequencyHz)

\* juce::Slider clamps a value to the range given to setRange.
Slider_constrain(v) ==
  IF v < SliderMin THEN SliderMin ELSE IF v > SliderMax THEN SliderMax ELSE v

\* A view-model that also writes the value into its own observable.
EqFilterViewModel_onCutoffFrequencyChanged_Echo(s, newValue) ==
  cutoffFrequencyChanged_([s EXCEPT !.frequencySliderValue = newValue], newValue)

EqFilterViewModel_onCutoffFrequencyChanged(s, newValue) ==
  cutoffFrequencyChanged_(s, newValue)

\* frequencySlider_.onValueChange:
\*   [this] { viewModel_->onCutoffFrequencyChanged(frequencySlider_.getValue()); }
EqFilterComponent_onValueChange(s) ==
  EqFilterViewModel_onCutoffFrequencyChanged(
    Log(s, "onValueChange", <<s.frequencySlider>>), s.frequencySlider)

\* juce::Slider::setValue(v, notification): the value is clamped; nothing
\* happens when it does not change; onValueChange runs only when notification
\* is not dontSendNotification.
Slider_setValue(s, v, sendNotification) ==
  LET c  == Slider_constrain(v)
      s1 == Log([s EXCEPT !.frequencySlider = c], "frequencySlider_.setValue", <<c>>)
  IN  IF c = s.frequencySlider THEN s
      ELSE IF sendNotification THEN EqFilterComponent_onValueChange(s1)
      ELSE s1

\* An observer that pushes the value into the slider with notification.
EqFilterComponent_onFrequencySliderValue_Notify(s, newValue) ==
  Slider_setValue(Log(s, "frequencySliderValue.observer", <<newValue>>), newValue, TRUE)

\* An observer that writes the value the slider accepted back into the observable.
EqFilterComponent_onFrequencySliderValue_WriteBack(s, newValue) ==
  [Slider_setValue(Log(s, "frequencySliderValue.observer", <<newValue>>), newValue, FALSE)
     EXCEPT !.frequencySliderValue = Slider_constrain(newValue)]

\* The observer of frequencySliderValue():
\*   [this](double v) { frequencySlider_.setValue(v, juce::dontSendNotification); }
EqFilterComponent_onFrequencySliderValue(s, newValue) ==
  Slider_setValue(Log(s, "frequencySliderValue.observer", <<newValue>>), newValue, FALSE)

\* frequencySliderValue_.setValueForced(v): store, then call every connected observer.
frequencySliderValue_setValueForced(s, v) ==
  LET s1 == Log([s EXCEPT !.frequencySliderValue = v],
                "frequencySliderValue.setValueForced", <<v>>)
  IN  IF EqConn \in s1.connected
      THEN EqFilterComponent_onFrequencySliderValue(s1, v)
      ELSE s1

----------------------------------------------------------------------------
(* Construction: the state wiring() has built when its last declaration is done *)

Init ==
  /\ cutoffFrequency = InitialCutoffFrequency
  /\ filter_magnitudeResponse = EmptyResponse
  /\ frequencySliderValue = InitialSliderValue
  /\ frequencySlider = Slider_constrain(frequencySliderValue)
  /\ vm_magnitudeResponse = filter_magnitudeResponse
  /\ plotBounds = DefaultRectangle
  /\ plot = EmptyPath
  /\ repaintPending = FALSE
  /\ painted = EmptyPath
  /\ connected = Connections
  /\ alive = Objects
  /\ pc = "running"
  /\ trace = <<<<"wiring", <<>>>>>>

----------------------------------------------------------------------------
(* Events while the components live *)

\* The user moves the slider to v: the widget takes the value and notifies.
UserChangesSlider(v) ==
  /\ pc = "running"
  /\ v # frequencySlider
  /\ Commit(Slider_setValue(Begin("user", <<v>>), v, TRUE))

\* Any holder of a reference to the model calls it while it lives.
CallOnCutoffFrequencyChanged(f) ==
  /\ Filter \in alive
  /\ Commit(EqFilter_onCutoffFrequencyChanged(
              Begin("EqFilter.onCutoffFrequencyChanged", <<f>>), f))

\* The toolkit resizes the plot component.
Resized(b) ==
  /\ pc = "running"
  /\ Commit(PlotComponent_resized(Begin("resized", b), b))

\* The toolkit paints the plot component: drawPlot strokes plot().value().
Paint ==
  /\ pc = "running"
  /\ painted' = plot
  /\ repaintPending' = FALSE
  /\ trace' = <<<<"paint", plot>>>>
  /\ UNCHANGED <<cutoffFrequency, filter_magnitudeResponse, frequencySliderValue,
                 frequencySlider, vm_magnitudeResponse, plotBounds, plot,
                 connected, alive, pc>>

\* The view-model's observable is set (no code of the example does so).
FrequencySliderValueSet(v) ==
  /\ pc = "running"
  /\ Commit(frequencySliderValue_setValueForced(Begin("set", <<v>>), v))

----------------------------------------------------------------------------
(* Scope exit of wiring(): objects in reverse order of declaration, and in  *)
(* each object the members in reverse order of declaration, then the base. *)

DestroyStep(from, to, released, destroyed) ==
  /\ pc = from
  /\ pc' = to
  /\ connected' = connected \ released
  /\ alive' = alive \ destroyed
  /\ trace' = <<<<to, <<>>>>>>
  /\ UNCHANGED <<cutoffFrequency, filter_magnitudeResponse, frequencySliderValue,
                 frequencySlider, vm_magnitudeResponse, plotBounds, plot,
                 repaintPending, painted>>

\* ~PlotComponent: connections_ is its last member.
PlotComponent_destroyConnections ==
  DestroyStep("running", "~plotComponent.connections_", {PlotConn}, {})

\* A view-model whose connection is never released.
PlotViewModel_destroyConnections_Leak ==
  DestroyStep("~plotComponent.connections_", "~plotViewModel.connections_", {}, {})

\* ~MagnitudeResponsePlotViewModel: connections_ is its last member.
PlotViewModel_destroyConnections ==
  DestroyStep("~plotComponent.connections_", "~plotViewModel.connections_",
              {VmConn}, {})

\* magnitudeResponse_, plotBounds_, plot_.
PlotViewModel_destroyMembers ==
  DestroyStep("~plotViewModel.connections_", "~plotViewModel", {}, {PlotViewModel})

PlotComponent_destroyBase ==
  DestroyStep("~plotViewModel", "~plotComponent", {}, {PlotComp})

\* ~EqFilterComponent: frequencySlider_ is its last member.
EqFilterComponent_destroySlider ==
  DestroyStep("~plotComponent", "~eqFilterComponent.frequencySlider_", {}, {Slider})

EqFilterComponent_destroyConnections ==
  DestroyStep("~eqFilterComponent.frequencySlider_", "~eqFilterComponent.connections_",
              {EqConn}, {})

EqFilterComponent_destroyViewModel ==
  DestroyStep("~eqFilterComponent.connections_", "~eqFilterComponent.viewModel_",
              {}, {EqViewModel})

EqFilterComponent_destroyBase ==
  DestroyStep("~eqFilterComponent.viewModel_", "~eqFilterComponent", {}, {EqComponent})

EqFilter_destroy ==
  DestroyStep("~eqFilterComponent", "~filter", {}, {Filter})

Teardown ==
  \/ PlotComponent_destroyConnections
  \/ PlotViewModel_destroyConnections
  \/ PlotViewModel_destroyMembers
  \/ PlotComponent_destroyBase
  \/ EqFilterComponent_destroySlider
  \/ EqFilterComponent_destroyConnections
  \/ EqFilterComponent_destroyViewModel
  \/ EqFilterComponent_destroyBase
  \/ EqFilter_destroy

----------------------------------------------------------------------------

Next ==
  \/ \E v \in Freqs : UserChangesSlider(v)
  \/ \E f \in Freqs : CallOnCutoffFrequencyChanged(f)
  \/ \E b \in Rects : Resized(b)
  \/ Paint
  \/ Teardown

Spec == Init /\ [][Next]_vars

\* The same program with the slider observable also being set.
NextObs ==
  \/ Next
  \/ \E v \in ObsValues : FrequencySliderValueSet(v)

SpecObs == Init /\ [][NextObs]_vars

----------------------------------------------------------------------------
(* Reading the log of the last step *)

Has(name) == \E i \in 1 .. Len(trace) : trace[i][1] = name

Count(name) == Cardinality({i \in 1 .. Len(trace) : trace[i][1] = name})

Names == [i \in 1 .. Len(trace) |-> trace[i][1]]

Step == trace[1][1]

StepArg == trace[1][2]

\* The event a connection's callback logs first.
CallbackEvent(c) ==
  CASE c = EqConn -> "frequencySliderValue.observer"
    [] c = VmConn -> "plotViewModel.magnitudeResponse_"
    [] c = PlotConn -> "repaint"

----------------------------------------------------------------------------
(* C1: after onPlotBoundsChanged(b) the view-model's bounds are b and       *)
(* plot().value() is the plot computed from the cached magnitude response   *)
(* and b, never a path computed from earlier bounds.                        *)
C1_PlotFollowsBounds ==
  Step = "resized" =>
    /\ plotBounds = StepArg
    /\ plot = calculateMagnitudeResponsePlot(
                [vm_magnitudeResponse |-> vm_magnitudeResponse,
                 plotBounds |-> StepArg])

\* The test of the source: empty response, bounds {0, 0, 100, 100}.
C1_Witness ==
  /\ Step = "resized"
  /\ StepArg = <<0, 0, 100, 100>>
  /\ vm_magnitudeResponse = EmptyResponse
  /\ plot = <<0, 0, 100, 100>>

(* C2: with the plot view-model subscribed, every call of                   *)
(* EqFilter.onCutoffFrequencyChanged makes the view-model's observer run    *)
(* once and publish the plot once, also when the cutoff does not change.    *)
C2_OneRecomputationPerCutoffChange ==
  (Has("cutoffFrequency_") /\ VmConn \in connected) =>
    /\ Count("cutoffFrequency_") = 1
    /\ Count("plotViewModel.magnitudeResponse_") = 1
    /\ Count("plot.setValueForced") = 1

\* A call with the cutoff the model already has, and one recomputation.
C2_Witness ==
  /\ VmConn \in connected
  /\ \E i \in 1 .. Len(trace) :
       /\ trace[i][1] = "cutoffFrequency_"
       /\ trace[i][2][1] = trace[i][2][2]
  /\ Count("plot.setValueForced") = 1

(* C3: once the holder of a subscription is destroyed, no later step runs   *)
(* the callback of that subscription.                                       *)
C3_NoCallbackAfterHolderDestroyed ==
  \A c \in Connections :
    ConnHolder(c) \notin alive => ~Has(CallbackEvent(c))

\* The model publishes after the plot view-model is gone.
C3_Witness ==
  /\ PlotViewModel \notin alive
  /\ Step = "EqFilter.onCutoffFrequencyChanged"
  /\ Has("magnitudeResponse.setValueForced")

(* C4: after frequencySliderValue is set to v, reading it yields v: the     *)
(* observer that runs during the set does not alter it.                     *)
C4_SetThenReadYieldsValue ==
  Step = "set" => frequencySliderValue = StepArg[1]

\* A value below the slider's range: the widget clamps, the observable does not.
C4_Witness ==
  /\ Step = "set"
  /\ StepArg[1] < SliderMin
  /\ frequencySliderValue = StepArg[1]
  /\ frequencySlider = SliderMin

C6_ObservableChangeDoesNotReenter ==
  /\ Len(trace) <= 9
  /\ Step = "set" =>
       /\ frequencySlider = Slider_constrain(StepArg[1])
       /\ ~Has("onValueChange")
       /\ ~Has("cutoffFrequencyChanged_")
       /\ Count("frequencySliderValue.observer") = 1

\* The set changed the widget's value.
C6_Witness ==
  /\ Step = "set"
  /\ Has("frequencySlider_.setValue")
  /\ frequencySlider = StepArg[1]

(* C7: a user change of the slider to v calls the injected callback once    *)
(* with v and sets the model's cutoff to v; frequencySliderValue keeps its  *)
(* initial value and none of its observers runs.                            *)
C7_UserChangeLeavesObservable ==
  /\ frequencySliderValue = InitialSliderValue
  /\ ~Has("frequencySliderValue.setValueForced")
  /\ ~Has("frequencySliderValue.observer")
  /\ Step = "user" =>
       /\ Count("cutoffFrequencyChanged_") = 1
       /\ \E i \in 1 .. Len(trace) : trace[i] = <<"cutoffFrequencyChanged_", StepArg>>
       /\ cutoffFrequency = StepArg[1]

C7_Witness ==
  /\ Step = "user"
  /\ StepArg[1] # InitialSliderValue
  /\ cutoffFrequency = StepArg[1]
  /\ frequencySlider = StepArg[1]
  /\ frequencySliderValue = InitialSliderValue

(* C8: onCutoffFrequencyChanged(f) stores f, then computes, then publishes: *)
(* the stored response and the one every observer receives are computed     *)
(* from f, and the observer runs also when f is the previous cutoff.        *)
C8_PublishesResponseOfNewCutoff ==
  \A i \in 1 .. Len(trace) :
    trace[i][1] = "cutoffFrequency_" =>
      LET f == trace[i][2][2]
          r == calculateMagnitudeResponse([cutoffFrequency |-> f])
      IN  /\ cutoffFrequency = f
          /\ filter_magnitudeResponse = r
          /\ i < Len(trace)
          /\ trace[i + 1] = <<"magnitudeResponse.setValueForced", r>>
          /\ VmConn \in connected =>
               /\ i + 1 < Len(trace)
               /\ trace[i + 2] = <<"plotViewModel.magnitudeResponse_", r>>

\* The cutoff did not change and the observer still ran.
C8_Witness ==
  \E i \in 1 .. Len(trace) :
    /\ trace[i][1] = "cutoffFrequency_"
    /\ trace[i][2][1] = trace[i][2][2]
    /\ Has("plotViewModel.magnitudeResponse_")
    /\ vm_magnitudeResponse = <<cutoffFrequency>>

(* C9: a user change of the slider runs, in this order and in one step, the *)
(* view-model's callback, the model's store and publish, the plot           *)
(* view-model's cache update and publish, and one repaint request, with the *)
(* cached response equal to the published one; a resize requests one        *)
(* repaint.                                                                 *)
C9_ChainOrder ==
  /\ Step = "user" =>
       /\ Names = <<"user", "frequencySlider_.setValue", "onValueChange",
                    "cutoffFrequencyChanged_", "cutoffFrequency_",
                    "magnitudeResponse.setValueForced",
                    "plotViewModel.magnitudeResponse_",
                    "plot.setValueForced", "repaint">>
       /\ vm_magnitudeResponse = filter_magnitudeResponse
       /\ repaintPending
  /\ Step = "resized" =>
       /\ Names = <<"resized", "plotBounds_", "plot.setValueForced", "repaint">>
       /\ repaintPending

C9_Witness ==
  /\ Step = "user"
  /\ Count("repaint") = 1
  /\ vm_magnitudeResponse = <<frequencySlider>>
  /\ plot = <<frequencySlider>> \o plotBounds
  /\ plotBounds # DefaultRectangle

(* C10: during the scope exit of wiring() no live subscription refers to a  *)
(* destroyed source observable or to destroyed state its callback uses.     *)
C10_NoDanglingSubscription ==
  \A c \in connected :
    /\ ConnSource(c) \in alive
    /\ ConnObserver(c) \subseteq alive

====
